---- MODULE Spec2Model ----
(***************************************************************************)
(* Model of the triangulation service: PointSet (binary point codec),      *)
(* Triangles (validated mesh and its encoder) and Triangulator             *)
(* (Bowyer-Watson).                                                        *)
(*                                                                         *)
(* A Python float held by a PointSet is always the widening of a float32,  *)
(* so it is modelled by the fields of that float32: <<sign, exp, mant>>    *)
(* (1, 8 and 23 bits).  Buffers are sequences of bytes 0..255.             *)
(*                                                                         *)
(* The Triangulator works on points k * 2^-unit, k a small natural.  Its   *)
(* arithmetic is modelled exactly, in half grid units u = 2^-(unit+1)      *)
(* (the centre of the bounding box may fall on a half grid step):          *)
(* lengths are integer multiples of u, d of u^2, and ux, uy are the        *)
(* rationals ux_num/d, uy_num/d.  The two 1e-9 thresholds are compared as  *)
(* exact fractions.                                                        *)
(***************************************************************************)
EXTENDS Integers, Sequences, FiniteSets, TLC

VARIABLES
    pc,             \* position of the caller: which object exists, what ran
    data,           \* bytes handed to PointSet(...)
    unit,           \* Triangulator inputs are k * 2^-unit
    points,         \* PointSet.points: sequence of <<x, y>>, x and y floats
    cand,           \* the triangles argument of Triangles(...)
    all_points,     \* triangulate: points + super_triangle_nodes, in units u
    triangulation,  \* triangulate: the working list of index triples
    n_points,       \* triangulate: len(points) as read on entry
    i,              \* triangulate: index of the next point to insert
    mesh,           \* the Triangles object built: [pointset, triangles], or NoMesh
    err,            \* the ValueError raised, as its message, or NoError
    out,            \* bytes returned by to_bytes
    point_set_id,   \* handler: the id of the route, a sequence of code points
    fetch,          \* handler: what urlopen(...) and read() will do
    response,       \* handler: the response returned, or NoResponse
    calls           \* handler: the calls made so far, in order

handler == << point_set_id, fetch, response, calls >>

vars == << pc, data, unit, points, cand, all_points, triangulation, n_points, i, mesh, err, out,
           point_set_id, fetch, response, calls >>

----------------------------------------------------------------------------
(* Bounds of the model *)

MaxPoints == 4      \* longest point list given to the Triangulator
MaxWords == 5       \* most 4-byte words after the count in a decoded buffer (two points and one more word)
MaxTris == 2        \* longest triangle list given to Triangles(...)

Coords == {0, 1, 2}     \* grid coordinates k of the Triangulator's inputs
Exps == {0, 16}         \* grid steps 2^-0 and 2^-16
MeshSizes == {3, 4}     \* sizes of the point sets given to Triangles(...)
FineExps == {17}        \* the fine grid has step 2^-17
FineCoordsY == {0, 1, 2, 3}     \* its y coordinates (its x are Coords)
FineLen == 5            \* point lists on the fine grid have this length
ApiMaxPoints == 3       \* longest point list the point-set service answers

----------------------------------------------------------------------------
(* The error messages of the three classes *)

NoError == "none"
NoMesh == "no mesh"
NoFetch == "no fetch"
NoResponse == "no response"
ErrNoCount == "buffer too short to contain point count"
ErrShort == "buffer too short"
ErrMinPoints == "need at least three points for triangulation"
ErrDupPoints == "duplicate points in point set"
ErrIndicesNumber == "a triangle don't have exactly 3 indices"
ErrRange == "triangle indices out of range"
ErrDistinct == "a triangle must reference three distinct points"
ErrDupTriangles == "duplicate triangles"

----------------------------------------------------------------------------
(* struct: "<I" and "<ff" *)

Abs(x) == IF x < 0 THEN -x ELSE x

\* struct.unpack_from("<I", data, off): little-endian, least significant first
UnpackU32(bytes, off) ==
    bytes[off + 1] + 256 * bytes[off + 2] + 65536 * bytes[off + 3]
        + 16777216 * bytes[off + 4]

\* struct.pack("<I", v)
PackU32(v) ==
    << v % 256, (v \div 256) % 256, (v \div 65536) % 256, (v \div 16777216) % 256 >>

IsNaN(f) == f[2] = 255 /\ f[3] # 0

\* struct.unpack_from("<f", data, off): the float32 in the 4 bytes, widened to
\* a double.  Widening keeps every value; a signalling NaN comes out quiet
\* (the top bit of the mantissa set).
UnpackF32(bytes, off) ==
    LET b0 == bytes[off + 1]
        b1 == bytes[off + 2]
        b2 == bytes[off + 3]
        b3 == bytes[off + 4]
        sign == b3 \div 128
        exp == (b3 % 128) * 2 + b2 \div 128
        mant == (b2 % 128) * 65536 + b1 * 256 + b0
    IN  IF exp = 255 /\ mant # 0 /\ mant < 4194304
        THEN << sign, exp, mant + 4194304 >>
        ELSE << sign, exp, mant >>

\* struct.pack("<f", x) of a double that is the widening of a float32
PackF32(f) ==
    << f[3] % 256,
       (f[3] \div 256) % 256,
       (f[2] % 2) * 128 + f[3] \div 65536,
       f[1] * 128 + f[2] \div 2 >>

----------------------------------------------------------------------------
(* PointSet *)

\* Fault for C5: the length test made inclusive (a buffer of exactly
\* 4 + count*8 bytes is refused)
BuildErrorInclusive(bytes) ==
    IF Len(bytes) < 4 THEN ErrNoCount
    ELSE IF Len(bytes) <= 4 + UnpackU32(bytes, 0) * 8 THEN ErrShort
    ELSE NoError

\* PointSet._build_from_bytes: the error it raises, or NoError
BuildError(bytes) ==
    IF Len(bytes) < 4 THEN ErrNoCount
    ELSE IF Len(bytes) < 4 + UnpackU32(bytes, 0) * 8 THEN ErrShort
    ELSE NoError

\* PointSet._build_from_bytes: the points of a buffer it accepts
BuildFromBytes(bytes) ==
    [k \in 1 .. UnpackU32(bytes, 0) |->
        << UnpackF32(bytes, 4 + (k - 1) * 8), UnpackF32(bytes, 8 + (k - 1) * 8) >>]

RECURSIVE PackPoints(_)
PackPoints(ps) ==
    IF ps = << >> THEN << >>
    ELSE PackF32(Head(ps)[1]) \o PackF32(Head(ps)[2]) \o PackPoints(Tail(ps))

\* PointSet.to_bytes
PointSetToBytes(ps) == PackU32(Len(ps)) \o PackPoints(ps)

----------------------------------------------------------------------------
(* Triangles *)

\* tuple(sorted((i, j, k)))
SortedKey(t) ==
    LET lo == IF t[1] <= t[2] /\ t[1] <= t[3] THEN t[1]
              ELSE IF t[2] <= t[3] THEN t[2] ELSE t[3]
        hi == IF t[1] >= t[2] /\ t[1] >= t[3] THEN t[1]
              ELSE IF t[2] >= t[3] THEN t[2] ELSE t[3]
    IN  << lo, t[1] + t[2] + t[3] - lo - hi, hi >>

\* Triangles._validate_indices_number
ValidIndicesNumber(t) == Len(t) = 3

\* Triangles._validate_indices_in_range
ValidIndicesInRange(t, nb_points) ==
    ~ (\/ (t[1] < 0 \/ t[1] >= nb_points)
       \/ (t[2] < 0 \/ t[2] >= nb_points)
       \/ (t[3] < 0 \/ t[3] >= nb_points))

\* Triangles._validate_distinct_vertices
ValidDistinctVertices(t) == Cardinality({t[1], t[2], t[3]}) = 3

\* Triangles._validate_not_duplicate: the test; the key is then added to seen
ValidNotDuplicate(t, seen) == SortedKey(t) \notin seen

\* Fault for C7: the distinct-vertices check made before the range check
RECURSIVE ValidateFromDistinctFirst(_, _, _, _)
ValidateFromDistinctFirst(tris, k, nb_points, seen) ==
    IF k > Len(tris) THEN << NoError, 0 >>
    ELSE IF ~ ValidIndicesNumber(tris[k]) THEN << ErrIndicesNumber, k >>
    ELSE IF ~ ValidDistinctVertices(tris[k]) THEN << ErrDistinct, k >>
    ELSE IF ~ ValidIndicesInRange(tris[k], nb_points) THEN << ErrRange, k >>
    ELSE IF ~ ValidNotDuplicate(tris[k], seen) THEN << ErrDupTriangles, k >>
    ELSE ValidateFromDistinctFirst(tris, k + 1, nb_points, seen \cup {SortedKey(tris[k])})

\* Triangles._validate_triangles, from the k-th triangle on with the keys seen
\* so far: << error, position of the triangle that raised it (0: none) >>
RECURSIVE ValidateFrom(_, _, _, _)
ValidateFrom(tris, k, nb_points, seen) ==
    IF k > Len(tris) THEN << NoError, 0 >>
    ELSE IF ~ ValidIndicesNumber(tris[k]) THEN << ErrIndicesNumber, k >>
    ELSE IF ~ ValidIndicesInRange(tris[k], nb_points) THEN << ErrRange, k >>
    ELSE IF ~ ValidDistinctVertices(tris[k]) THEN << ErrDistinct, k >>
    ELSE IF ~ ValidNotDuplicate(tris[k], seen) THEN << ErrDupTriangles, k >>
    ELSE ValidateFrom(tris, k + 1, nb_points, seen \cup {SortedKey(tris[k])})

\* Triangles.__init__: the ValueError it raises (its message is all it
\* carries), or NoError
ValidateTriangles(ps, tris) == ValidateFrom(tris, 1, Len(ps), {})[1]

\* PointSet.__init__: the object it builds, points its only attribute
PointSetObject(ps) == [points |-> ps]

\* Triangles.__init__: the object it builds
NewTriangles(ps, tris) == [pointset |-> ps, triangles |-> tris]

\* Fault for C9: each triangle written as its sorted key
RECURSIVE PackTrianglesSorted(_)
PackTrianglesSorted(tris) ==
    IF tris = << >> THEN << >>
    ELSE PackU32(SortedKey(Head(tris))[1]) \o PackU32(SortedKey(Head(tris))[2])
            \o PackU32(SortedKey(Head(tris))[3]) \o PackTrianglesSorted(Tail(tris))

\* Triangles.to_bytes: the loop over the triangles, indices in the given order
RECURSIVE PackTriangles(_)
PackTriangles(tris) ==
    IF tris = << >> THEN << >>
    ELSE PackU32(Head(tris)[1]) \o PackU32(Head(tris)[2]) \o PackU32(Head(tris)[3])
            \o PackTriangles(Tail(tris))

\* Triangles.to_bytes
TrianglesToBytes(m) ==
    PointSetToBytes(m.pointset) \o PackU32(Len(m.triangles)) \o PackTriangles(m.triangles)

----------------------------------------------------------------------------
(* Exact arithmetic on the floats of the grid *)

\* a/b < c/d, for naturals a, c and positive naturals b, d, by comparing the
\* continued fractions (no product is formed)
RECURSIVE FracLess(_, _, _, _)
FracLess(a, b, c, d) ==
    IF a \div b # c \div d THEN a \div b < c \div d
    ELSE IF c % d = 0 THEN FALSE
    ELSE IF a % b = 0 THEN TRUE
    ELSE FracLess(d, c % d, b, a % b)

\* The float k * 2^-e (k > 0 normalised to 1.m * 2^h)
GridFloat(k, e) ==
    IF k = 0 THEN << 0, 0, 0 >>
    ELSE LET h == CHOOSE h \in 0 .. 22 : 2 ^ h <= k /\ k < 2 ^ (h + 1)
         IN  << 0, 127 + h - e, (k - 2 ^ h) * 2 ^ (23 - h) >>

\* The value of a finite float, in units u = 2^-(e+1): an integer for the
\* floats of the grid
HalfUnits(f, e) ==
    LET sig == 8388608 + f[3]
        shift == f[2] - 149 + e
        mag == IF f[2] = 0 /\ f[3] = 0 THEN 0
               ELSE IF shift >= 0 THEN sig * 2 ^ shift
               ELSE sig \div 2 ^ (- shift)
    IN  IF f[1] = 1 THEN - mag ELSE mag

\* The literal 1e-9 in units u^2, as the fraction << numerator, denominator >>:
\* 4^(e+1) / 10^9 in lowest terms
Epsilon(e) ==
    IF 2 * e >= 7 THEN << 2 ^ (2 * e - 7), 5 ^ 9 >>
    ELSE << 1, 5 ^ 9 * 2 ^ (7 - 2 * e) >>

\* x == y on two Python floats
FloatEq(f, g) ==
    /\ ~ IsNaN(f)
    /\ ~ IsNaN(g)
    /\ \/ f = g
       \/ f[2] = 0 /\ f[3] = 0 /\ g[2] = 0 /\ g[3] = 0

SetMin(S) == CHOOSE x \in S : \A y \in S : x <= y
SetMax(S) == CHOOSE x \in S : \A y \in S : x >= y

----------------------------------------------------------------------------
(* Triangulator *)

\* Triangulator._validate_min_points
ValidMinPoints(ps) == ~ (Len(ps) < 3)

\* Triangulator._validate_no_duplicates: no key (float(x), float(y)) is met
\* again in the set of the keys seen so far
ValidNoDuplicates(ps) ==
    \A k \in 1 .. Len(ps) : \A j \in 1 .. k - 1 :
        ~ (FloatEq(ps[j][1], ps[k][1]) /\ FloatEq(ps[j][2], ps[k][2]))

\* Fault for C4: the duplicate check made before the size check
TriangulatorErrorDupFirst(ps) ==
    IF ~ ValidNoDuplicates(ps) THEN ErrDupPoints
    ELSE IF ~ ValidMinPoints(ps) THEN ErrMinPoints
    ELSE NoError

\* Triangulator.__init__: the ValueError it raises, or NoError
TriangulatorError(ps) ==
    IF ~ ValidMinPoints(ps) THEN ErrMinPoints
    ELSE IF ~ ValidNoDuplicates(ps) THEN ErrDupPoints
    ELSE NoError

\* triangulate, step 1: [st_p1, st_p2, st_p3] for the points pts (in units u)
SuperTriangleNodes(pts) ==
    LET min_x == SetMin({pts[k][1] : k \in 1 .. Len(pts)})
        max_x == SetMax({pts[k][1] : k \in 1 .. Len(pts)})
        min_y == SetMin({pts[k][2] : k \in 1 .. Len(pts)})
        max_y == SetMax({pts[k][2] : k \in 1 .. Len(pts)})
        dx == max_x - min_x
        dy == max_y - min_y
        delta_max == IF dx >= dy THEN dx ELSE dy
        mid_x == (min_x + max_x) \div 2
        mid_y == (min_y + max_y) \div 2
    IN  << << mid_x - 20 * delta_max, mid_y - delta_max >>,
           << mid_x, mid_y + 20 * delta_max >>,
           << mid_x + 20 * delta_max, mid_y - delta_max >> >>

\* triangulate: all_points = points + super_triangle_nodes, the floats of
\* points read in units u
AllPoints(ps, e) ==
    LET pts == [k \in 1 .. Len(ps) |-> << HalfUnits(ps[k][1], e), HalfUnits(ps[k][2], e) >>]
    IN  pts \o SuperTriangleNodes(pts)

\* Triangulator._is_point_in_circumcircle.  ux = ux_num / d and uy = uy_num / d;
\* r_sq - d_sq = (px - ax)(2 ux - ax - px) + (py - ay)(2 uy - ay - py), so
\* margin / |d| is r_sq - d_sq, and d_sq < r_sq - 1e-9 iff 1e-9 < margin / |d|.
IsPointInCircumcircle(p, triangle, allp, e) ==
    LET ax == allp[triangle[1] + 1][1]
        ay == allp[triangle[1] + 1][2]
        bx == allp[triangle[2] + 1][1]
        by == allp[triangle[2] + 1][2]
        cx == allp[triangle[3] + 1][1]
        cy == allp[triangle[3] + 1][2]
        d == 2 * (ax * (by - cy) + bx * (cy - ay) + cx * (ay - by))
        ux_num == (ax * ax + ay * ay) * (by - cy) + (bx * bx + by * by) * (cy - ay)
                    + (cx * cx + cy * cy) * (ay - by)
        uy_num == (ax * ax + ay * ay) * (cx - bx) + (bx * bx + by * by) * (ax - cx)
                    + (cx * cx + cy * cy) * (bx - ax)
        diff == (p[1] - ax) * (2 * ux_num - (ax + p[1]) * d)
                    + (p[2] - ay) * (2 * uy_num - (ay + p[2]) * d)
        margin == IF d > 0 THEN diff ELSE - diff
    IN  IF FracLess(Abs(d), 1, Epsilon(e)[1], Epsilon(e)[2]) THEN FALSE
        ELSE margin > 0 /\ FracLess(Epsilon(e)[1], Epsilon(e)[2], margin, Abs(d))

\* triangulate, 2a: the triangles of the working list whose circumcircle
\* holds the point, in list order
BadTriangles(tris, p, allp, e) ==
    SelectSeq(tris, LAMBDA tri : IsPointInCircumcircle(p, tri, allp, e))

TriangleEdges(tri) == << << tri[1], tri[2] >>, << tri[2], tri[3] >>, << tri[3], tri[1] >> >>

\* Fault for C15: the edge compared as it is directed in its triangle
SortedEdgeAsDirected(edge) == edge

\* tuple(sorted(edge))
SortedEdge(edge) == IF edge[1] <= edge[2] THEN edge ELSE << edge[2], edge[1] >>

\* the flag shared, after the loop over other_tri
SharedEdge(edge, tri, bad) ==
    \E k \in 1 .. Len(bad) :
        /\ bad[k] # tri
        /\ \E j \in 1 .. 3 : SortedEdge(TriangleEdges(bad[k])[j]) = SortedEdge(edge)

\* triangulate, 2b: polygon, the edges of the bad triangles from the k-th on
\* that no other bad triangle has, in discovery order
RECURSIVE PolygonFrom(_, _)
PolygonFrom(bad, k) ==
    IF k > Len(bad) THEN << >>
    ELSE SelectSeq(TriangleEdges(bad[k]), LAMBDA edge : ~ SharedEdge(edge, bad[k], bad))
            \o PolygonFrom(bad, k + 1)

Polygon(bad) == PolygonFrom(bad, 1)

\* list.remove(tri): the first element equal to tri goes
RECURSIVE ListRemove(_, _)
ListRemove(list, tri) ==
    IF list = << >> THEN << >>
    ELSE IF Head(list) = tri THEN Tail(list)
    ELSE << Head(list) >> \o ListRemove(Tail(list), tri)

\* Fault for C14: only the first bad triangle is removed
RemoveAllFirstOnly(list, bad) ==
    IF bad = << >> THEN list ELSE ListRemove(list, Head(bad))

\* triangulate, 2c: for tri in bad_triangles: triangulation.remove(tri)
RECURSIVE RemoveAll(_, _)
RemoveAll(list, bad) ==
    IF bad = << >> THEN list
    ELSE RemoveAll(ListRemove(list, Head(bad)), Tail(bad))

\* triangulate, 2d: new_tri = (edge[0], edge[1], i) for each edge of polygon
NewTris(polygon, idx) ==
    [k \in 1 .. Len(polygon) |-> << polygon[k][1], polygon[k][2], idx >>]

\* triangulate, one turn of the loop over enumerate(points)
InsertPoint(tris, idx, allp, e) ==
    LET bad_triangles == BadTriangles(tris, allp[idx + 1], allp, e)
    IN  RemoveAll(tris, bad_triangles) \o NewTris(Polygon(bad_triangles), idx)

\* triangulate, step 3: the triangles with no index >= n_points
FinalTriangles(tris, n) ==
    SelectSeq(tris, LAMBDA tri : ~ (\E j \in 1 .. 3 : tri[j] >= n))

\* Fault for C10: all_points made an alias of points, so that the three
\* super-triangle nodes are appended to the list of the PointSet
TriangulateSetupAliased(ps, e) ==
    [ points |-> ps \o [k \in 1 .. 3 |-> << GridFloat(0, e), GridFloat(0, e) >>],
      n_points |-> Len(ps),
      all_points |-> AllPoints(ps, e),
      triangulation |-> << << Len(ps), Len(ps) + 1, Len(ps) + 2 >> >> ]

\* triangulate, up to the loop: what the names hold (points is the list of
\* the PointSet; all_points is a new list)
TriangulateSetup(ps, e) ==
    [ points |-> ps,
      n_points |-> Len(ps),
      all_points |-> AllPoints(ps, e),
      triangulation |-> << << Len(ps), Len(ps) + 1, Len(ps) + 2 >> >> ]

----------------------------------------------------------------------------
(* The handler of /triangulate/<point_set_id> *)

\* A character is its code point.  Ord gives the code point of the ASCII
\* characters written in this module, Codes that of a text.
Ord ==
    "0" :> 48 @@ "1" :> 49 @@ "2" :> 50 @@ "3" :> 51 @@ "4" :> 52 @@ "5" :> 53 @@
    "6" :> 54 @@ "7" :> 55 @@ "8" :> 56 @@ "9" :> 57 @@ "a" :> 97 @@ "b" :> 98 @@
    "c" :> 99 @@ "d" :> 100 @@ "e" :> 101 @@ "f" :> 102 @@ "A" :> 65 @@ "B" :> 66 @@
    "C" :> 67 @@ "D" :> 68 @@ "E" :> 69 @@ "F" :> 70 @@ "x" :> 120 @@ "X" :> 88 @@
    "_" :> 95 @@ "+" :> 43 @@ "-" :> 45 @@ "{" :> 123 @@ "}" :> 125 @@ ":" :> 58 @@
    "u" :> 117 @@ "r" :> 114 @@ "n" :> 110 @@ "i" :> 105 @@ "t" :> 116 @@ "s" :> 115 @@
    " " :> 32

Codes(s) == [k \in 1 .. Len(s) |-> Ord[s[k]]]

\* 0-9, A-F, a-f
AsciiHexDigits == (48 .. 57) \cup (65 .. 70) \cup (97 .. 102)

\* tab, line feed, vertical tab, form feed, carriage return, blank: what
\* int() skips at both ends
AsciiSpaces == {9, 10, 11, 12, 13, 32}

\* the whitespace beyond ASCII, which int() reads as a blank
UnicodeSpaces ==
    {133, 160, 5760} \cup (8192 .. 8202) \cup {8232, 8233, 8239, 8287, 12288}

\* the decimal digits beyond ASCII come in runs 0..9; these are the zeros
\* (Unicode 14.0, the tables of Python 3.11)
DecimalZeros ==
    { 1632, 1776, 1984, 2406, 2534, 2662, 2790, 2918, 3046, 3174,
      3302, 3430, 3558, 3664, 3792, 3872, 4160, 4240, 6112, 6160,
      6470, 6608, 6784, 6800, 6992, 7088, 7232, 7248, 42528, 43216,
      43264, 43472, 43504, 43600, 44016, 65296, 66720, 68912, 69734, 69872,
      69942, 70096, 70384, 70736, 70864, 71248, 71360, 71472, 71904, 72016,
      72784, 73040, 73120, 92768, 92864, 93008, 120782, 120792, 120802, 120812,
      120822, 123200, 123632, 125264, 130032 }

\* int() on a character beyond ASCII: whitespace is read as a blank, a
\* decimal digit as its ASCII digit, anything else as "?"
ToAscii(c) ==
    IF c < 127 THEN c
    ELSE IF c \in UnicodeSpaces THEN 32
    ELSE IF \E z \in DecimalZeros : c \in z .. z + 9
    THEN 48 + c - (CHOOSE z \in DecimalZeros : c \in z .. z + 9)
    ELSE 63

\* the characters c for which int(c, 16) is a number
HexDigits == AsciiHexDigits \cup UNION { z .. z + 9 : z \in DecimalZeros }

StartsWith(s, pat) == Len(s) >= Len(pat) /\ SubSeq(s, 1, Len(pat)) = pat

\* str.replace(pat, ''): every occurrence of pat, left to right, goes
RECURSIVE RemoveAllOf(_, _)
RemoveAllOf(s, pat) ==
    IF s = << >> THEN << >>
    ELSE IF StartsWith(s, pat) THEN RemoveAllOf(SubSeq(s, Len(pat) + 1, Len(s)), pat)
    ELSE << Head(s) >> \o RemoveAllOf(Tail(s), pat)

\* str.strip(chars): the leading and the trailing characters of chars go
RECURSIVE StripLeft(_, _)
StripLeft(s, chars) ==
    IF s # << >> /\ Head(s) \in chars THEN StripLeft(Tail(s), chars) ELSE s

RECURSIVE StripRight(_, _)
StripRight(s, chars) ==
    IF s # << >> /\ s[Len(s)] \in chars THEN StripRight(SubSeq(s, 1, Len(s) - 1), chars) ELSE s

Strip(s, chars) == StripRight(StripLeft(s, chars), chars)

\* int(s, 16) succeeds: the characters beyond ASCII read as ASCII, whitespace
\* around, an optional sign, an optional 0x, then hexadecimal digits, single
\* underscores allowed between digits and after 0x
IntBase16Parses(s) ==
    LET a == [k \in 1 .. Len(s) |-> ToAscii(s[k])]
        t == Strip(a, AsciiSpaces)
        u == IF t # << >> /\ Head(t) \in {Ord["+"], Ord["-"]} THEN Tail(t) ELSE t
        prefixed == Len(u) >= 2 /\ u[1] = Ord["0"] /\ u[2] \in {Ord["x"], Ord["X"]}
        v == IF prefixed THEN SubSeq(u, 3, Len(u)) ELSE u
        w == IF prefixed /\ v # << >> /\ Head(v) = Ord["_"] THEN Tail(v) ELSE v
    IN  /\ w # << >>
        /\ \A k \in 1 .. Len(w) : w[k] \in AsciiHexDigits \cup {Ord["_"]}
        /\ w[1] # Ord["_"]
        /\ w[Len(w)] # Ord["_"]
        /\ \A k \in 1 .. Len(w) - 1 : ~ (w[k] = Ord["_"] /\ w[k + 1] = Ord["_"])

\* uuid.UUID(point_set_id) returns (True) or raises ValueError (False)
UuidParses(id) ==
    LET hex0 == RemoveAllOf(RemoveAllOf(id, Codes(<< "u", "r", "n", ":" >>)),
                            Codes(<< "u", "u", "i", "d", ":" >>))
        hex == RemoveAllOf(Strip(hex0, {Ord["{"], Ord["}"]}), << Ord["-"] >>)
    IN  Len(hex) = 32 /\ IntBase16Parses(hex)

\* the status the handler gives to an HTTPError of urlopen
HttpErrorStatus(code) == IF code = 404 THEN 404 ELSE 502

\* what Flask makes of a returned (dict, status)
JsonResponse(message, status) ==
    [status |-> status, content_type |-> "application/json", body |-> [error |-> message]]

\* make_response(response_bytes) with the Content-Type header set
BytesResponse(bytes) ==
    [status |-> 200, content_type |-> "application/octet-stream", body |-> bytes]

\* triangulate, the whole loop: the working list after the points idx .. n - 1
\* have gone in
RECURSIVE InsertFrom(_, _, _, _, _)
InsertFrom(tris, idx, n, allp, e) ==
    IF idx >= n THEN tris
    ELSE InsertFrom(InsertPoint(tris, idx, allp, e), idx + 1, n, allp, e)

\* the try block of the handler on the bytes fetched: the calls it makes, the
\* ValueError that ends it or NoError, and what its names hold then
Process(bytes, e) ==
    LET ps == BuildFromBytes(bytes)
        setup == TriangulateSetup(ps, e)
        work == InsertFrom(setup.triangulation, 0, setup.n_points, setup.all_points, e)
        final == FinalTriangles(work, setup.n_points)
        none == [calls |-> << >>, err |-> NoError, points |-> << >>, all_points |-> << >>,
                 triangulation |-> << >>, mesh |-> NoMesh, out |-> << >>]
    IN  IF BuildError(bytes) # NoError
        THEN [none EXCEPT !.calls = << "PointSet" >>, !.err = BuildError(bytes)]
        ELSE IF TriangulatorError(ps) # NoError
        THEN [none EXCEPT !.calls = << "PointSet", "Triangulator" >>,
                          !.err = TriangulatorError(ps), !.points = ps]
        ELSE IF ValidateTriangles(ps, final) # NoError
        THEN [none EXCEPT !.calls = << "PointSet", "Triangulator", "triangulate" >>,
                          !.err = ValidateTriangles(ps, final), !.points = ps,
                          !.all_points = setup.all_points, !.triangulation = work]
        ELSE [calls |-> << "PointSet", "Triangulator", "triangulate", "to_bytes" >>,
              err |-> NoError, points |-> ps, all_points |-> setup.all_points,
              triangulation |-> work, mesh |-> NewTriangles(ps, final),
              out |-> TrianglesToBytes(NewTriangles(ps, final))]

----------------------------------------------------------------------------
(* Inputs *)

GridPoints(e) == { << GridFloat(x, e), GridFloat(y, e) >> : x \in Coords, y \in Coords }

PointLists(e) == UNION { [1 .. n -> GridPoints(e)] : n \in 0 .. MaxPoints }

\* five points of the fine grid, 3 wide and 4 high
FinePointLists(e) ==
    [1 .. FineLen -> { << GridFloat(x, e), GridFloat(y, e) >> : x \in Coords, y \in FineCoordsY }]

\* the id of the tests, in the forms uuid.UUID documents, and other texts
CanonicalId ==
    Codes(<< "1", "2", "3", "e", "4", "5", "6", "7", "-", "e", "8", "9", "b", "-",
             "1", "2", "d", "3", "-", "a", "4", "5", "6", "-",
             "4", "2", "6", "6", "1", "4", "1", "7", "4", "0", "0", "0" >>)

\* the 35 characters after the first of CanonicalId, after ch
After(ch) == << ch >> \o SubSeq(CanonicalId, 2, 36)

Ids ==
    { CanonicalId,
      << Ord["{"] >> \o CanonicalId \o << Ord["}"] >>,
      Codes(<< "u", "r", "n", ":", "u", "u", "i", "d", ":" >>) \o CanonicalId,
      RemoveAllOf(CanonicalId, << Ord["-"] >>),
      Codes(<< "t", "e", "s", "t" >>),
      [k \in 1 .. 36 |-> IF k \in {9, 14, 19, 24} THEN Ord["-"] ELSE Ord["x"]],
      SubSeq(CanonicalId, 1, 35),
      CanonicalId \o << Ord["0"] >>,
      Codes(<< "0", "x" >>) \o SubSeq(CanonicalId, 3, 36),
      Codes(<< "1", "_" >>) \o SubSeq(CanonicalId, 3, 36),
      After(9),                             \* a tab first
      SubSeq(CanonicalId, 1, 35) \o << 10 >>,   \* a line feed last
      After(28),                            \* U+001C first
      After(1633),                          \* ARABIC-INDIC DIGIT ONE first
      After(12288),                         \* IDEOGRAPHIC SPACE first
      After(65345) }                        \* FULLWIDTH LATIN SMALL LETTER A first

\* the bodies the point-set service may answer: encoded lists of grid points,
\* whole or with the last byte missing
ApiBodies(e) ==
    UNION { { PointSetToBytes(ps), SubSeq(PointSetToBytes(ps), 1, Len(PointSetToBytes(ps)) - 1) } :
                ps \in UNION { [1 .. n -> GridPoints(e)] : n \in 0 .. ApiMaxPoints } }

\* urlopen and read: a body, an HTTPError with a code, another exception
Fetches(e) ==
    [kind : {"body"}, bytes : ApiBodies(e), code : {200}, reason : {"OK"}]
        \cup { [kind |-> "HTTPError", bytes |-> << >>, code |-> 404, reason |-> ""],
               [kind |-> "HTTPError", bytes |-> << >>, code |-> 500, reason |-> "Internal Server Error"],
               [kind |-> "HTTPError", bytes |-> << >>, code |-> 503, reason |-> "Service Unavailable"],
               [kind |-> "Exception", bytes |-> << >>, code |-> 0, reason |-> "timed out"] }

\* 4-byte words after the count: 0.0, 1.0, a signalling NaN, -inf, 0.333..
FloatWords ==
    { << 0, 0, 0, 0 >>, << 0, 0, 128, 63 >>, << 1, 0, 128, 127 >>,
      << 0, 0, 128, 255 >>, << 171, 170, 170, 62 >> }

Headers == { << b0, b1, b2, b3 >> : b0 \in 0 .. 2, b1 \in 0 .. 1, b2 \in 0 .. 1, b3 \in 0 .. 1 }

WordLists == UNION { [1 .. n -> FloatWords] : n \in 0 .. MaxWords }

RECURSIVE Flatten(_)
Flatten(ws) == IF ws = << >> THEN << >> ELSE Head(ws) \o Flatten(Tail(ws))

\* a header and some words, whole or cut short
Buffer(h, ws, cut) == SubSeq(h \o Flatten(ws), 1, 4 * Len(ws) + cut)

\* (0,0), (1,0), (0,1), (1,1), ...
MeshPoints(n) ==
    [k \in 1 .. n |-> << GridFloat((k - 1) % 2, 0), GridFloat((k - 1) \div 2, 0) >>]

TriTuples ==
    [1 .. 3 -> 0 .. 3]
        \cup { << 0, 1, -1 >>, << -1, 0, 1 >>, << 0, 1, 4 >>, << 0, 1 >>,
               << 0, 1, 2, 3 >>, << >> }

TriLists == UNION { [1 .. n -> TriTuples] : n \in 0 .. MaxTris }

----------------------------------------------------------------------------
(* The three state machines *)

\* A caller holding a buffer
InitPointSet ==
    /\ pc = "buffer"
    /\ \E h \in Headers, ws \in WordLists, cut \in 0 .. 4 : data = Buffer(h, ws, cut)
    /\ unit = 0
    /\ points = << >>
    /\ cand = << >>
    /\ all_points = << >>
    /\ triangulation = << >>
    /\ n_points = 0
    /\ i = 0
    /\ mesh = NoMesh
    /\ err = NoError
    /\ out = << >>
    /\ point_set_id = << >>
    /\ fetch = NoFetch
    /\ response = NoResponse
    /\ calls = << >>

\* A caller holding a PointSet and a list of triangles
InitTriangles ==
    /\ pc = "args"
    /\ data = << >>
    /\ unit = 0
    /\ points \in { MeshPoints(n) : n \in MeshSizes }
    /\ cand \in TriLists
    /\ all_points = << >>
    /\ triangulation = << >>
    /\ n_points = 0
    /\ i = 0
    /\ mesh = NoMesh
    /\ err = NoError
    /\ out = << >>
    /\ point_set_id = << >>
    /\ fetch = NoFetch
    /\ response = NoResponse
    /\ calls = << >>

\* A caller holding a PointSet of grid points
Init ==
    /\ pc = "pointset"
    /\ data = << >>
    /\ unit \in Exps
    /\ points \in PointLists(unit)
    /\ cand = << >>
    /\ all_points = << >>
    /\ triangulation = << >>
    /\ n_points = 0
    /\ i = 0
    /\ mesh = NoMesh
    /\ err = NoError
    /\ out = << >>
    /\ point_set_id = << >>
    /\ fetch = NoFetch
    /\ response = NoResponse
    /\ calls = << >>

\* A caller holding a PointSet of five points of the fine grid
InitFine ==
    /\ pc = "pointset"
    /\ data = << >>
    /\ unit \in FineExps
    /\ points \in FinePointLists(unit)
    /\ cand = << >>
    /\ all_points = << >>
    /\ triangulation = << >>
    /\ n_points = 0
    /\ i = 0
    /\ mesh = NoMesh
    /\ err = NoError
    /\ out = << >>
    /\ point_set_id = << >>
    /\ fetch = NoFetch
    /\ response = NoResponse
    /\ calls = << >>

\* PointSet(data)
NewPointSet ==
    /\ pc = "buffer"
    /\ IF BuildError(data) = NoError
       THEN /\ points' = BuildFromBytes(data)
            /\ pc' = "pointset"
            /\ err' = err
       ELSE /\ err' = BuildError(data)
            /\ pc' = "raised"
            /\ points' = points
    /\ UNCHANGED << data, unit, cand, all_points, triangulation, n_points, i, mesh, out >>
    /\ UNCHANGED handler

\* PointSet.to_bytes()
PointSetEncode ==
    /\ pc = "pointset"
    /\ out' = PointSetToBytes(points)
    /\ pc' = "bytes"
    /\ UNCHANGED << data, unit, points, cand, all_points, triangulation, n_points, i, mesh, err >>
    /\ UNCHANGED handler

\* Triangles(pointset, triangles)
NewTrianglesCall ==
    /\ pc = "args"
    /\ IF ValidateTriangles(points, cand) = NoError
       THEN /\ mesh' = NewTriangles(points, cand)
            /\ pc' = "mesh"
            /\ err' = err
       ELSE /\ err' = ValidateTriangles(points, cand)
            /\ pc' = "raised"
            /\ mesh' = mesh
    /\ UNCHANGED << data, unit, points, cand, all_points, triangulation, n_points, i, out >>
    /\ UNCHANGED handler

\* Triangles.to_bytes()
TrianglesEncode ==
    /\ pc = "mesh"
    /\ out' = TrianglesToBytes(mesh)
    /\ pc' = "bytes"
    /\ UNCHANGED << data, unit, points, cand, all_points, triangulation, n_points, i, mesh, err >>
    /\ UNCHANGED handler

\* PointSet(m.to_bytes()): the mesh buffer handed to the decoder of the core
PointSetOfMeshBytes ==
    /\ pc = "bytes"
    /\ data' = out
    /\ IF BuildError(out) = NoError
       THEN /\ points' = BuildFromBytes(out)
            /\ pc' = "pointset"
            /\ err' = err
       ELSE /\ err' = BuildError(out)
            /\ pc' = "raised"
            /\ points' = points
    /\ UNCHANGED << unit, cand, all_points, triangulation, n_points, i, mesh, out >>
    /\ UNCHANGED handler

\* Triangulator(point_set)
NewTriangulator ==
    /\ pc = "pointset"
    /\ IF TriangulatorError(points) = NoError
       THEN /\ pc' = "triangulator"
            /\ err' = err
       ELSE /\ err' = TriangulatorError(points)
            /\ pc' = "raised"
    /\ UNCHANGED << data, unit, points, cand, all_points, triangulation, n_points, i, mesh, out >>
    /\ UNCHANGED handler

\* triangulate(), lines 36-57: the super-triangle
TriangulateBegin ==
    /\ pc = "triangulator"
    /\ points' = TriangulateSetup(points, unit).points
    /\ n_points' = TriangulateSetup(points, unit).n_points
    /\ all_points' = TriangulateSetup(points, unit).all_points
    /\ triangulation' = TriangulateSetup(points, unit).triangulation
    /\ i' = 0
    /\ pc' = "inserting"
    /\ UNCHANGED << data, unit, cand, mesh, err, out >>
    /\ UNCHANGED handler

\* triangulate(), lines 60-96: one turn of the loop
TriangulateInsert ==
    /\ pc = "inserting"
    /\ i < Len(points)
    /\ triangulation' = InsertPoint(triangulation, i, all_points, unit)
    /\ i' = i + 1
    /\ UNCHANGED << pc, data, unit, points, cand, all_points, n_points, mesh, err, out >>
    /\ UNCHANGED handler

\* triangulate(), lines 98-104: the clean-up and Triangles(...)
TriangulateEnd ==
    /\ pc = "inserting"
    /\ i >= Len(points)
    /\ LET final_triangles == FinalTriangles(triangulation, n_points)
       IN  IF ValidateTriangles(points, final_triangles) = NoError
           THEN /\ mesh' = NewTriangles(points, final_triangles)
                /\ pc' = "mesh"
                /\ err' = err
           ELSE /\ err' = ValidateTriangles(points, final_triangles)
                /\ pc' = "raised"
                /\ mesh' = mesh
    /\ UNCHANGED << data, unit, points, cand, all_points, triangulation, n_points, i, out >>
    /\ UNCHANGED handler

\* A request for /triangulate/<point_set_id>
InitApi ==
    /\ pc = "request"
    /\ data = << >>
    /\ unit \in Exps
    /\ points = << >>
    /\ cand = << >>
    /\ all_points = << >>
    /\ triangulation = << >>
    /\ n_points = 0
    /\ i = 0
    /\ mesh = NoMesh
    /\ err = NoError
    /\ out = << >>
    /\ point_set_id \in Ids
    /\ fetch \in Fetches(unit)
    /\ response = NoResponse
    /\ calls = << >>

\* handler, lines 16-19: uuid.UUID(point_set_id)
ApiValidateId ==
    /\ pc = "request"
    /\ calls' = Append(calls, "uuid.UUID")
    /\ IF UuidParses(point_set_id)
       THEN /\ pc' = "fetching"
            /\ response' = response
       ELSE /\ pc' = "responded"
            /\ response' = JsonResponse(<< "Invalid UUID format" >>, 400)
    /\ UNCHANGED << data, unit, points, cand, all_points, triangulation, n_points, i, mesh, err, out >>
    /\ UNCHANGED << point_set_id, fetch >>

\* handler, lines 21-31: urlopen("url") and response.read()
ApiFetch ==
    /\ pc = "fetching"
    /\ calls' = Append(calls, "urlopen")
    /\ \/ /\ fetch.kind = "body"
          /\ data' = fetch.bytes
          /\ pc' = "processing"
          /\ response' = response
       \/ /\ fetch.kind = "HTTPError"
          /\ response' = IF HttpErrorStatus(fetch.code) = 404
                         THEN JsonResponse(<< "PointSet not found" >>, 404)
                         ELSE JsonResponse(<< "Upstream error: ", fetch.reason >>,
                                           HttpErrorStatus(fetch.code))
          /\ pc' = "responded"
          /\ data' = data
       \/ /\ fetch.kind = "Exception"
          /\ response' = JsonResponse(<< "Connection error: ", fetch.reason >>, 503)
          /\ pc' = "responded"
          /\ data' = data
    /\ UNCHANGED << unit, points, cand, all_points, triangulation, n_points, i, mesh, err, out >>
    /\ UNCHANGED << point_set_id, fetch >>

\* handler, lines 33-44: the core on the bytes fetched, and the response
ApiProcess ==
    /\ pc = "processing"
    /\ LET run == Process(data, unit)
       IN  /\ calls' = calls \o run.calls
           /\ err' = run.err
           /\ points' = run.points
           /\ n_points' = IF run.all_points = << >> THEN n_points ELSE Len(run.points)
           /\ i' = IF run.all_points = << >> THEN 0 ELSE Len(run.points)
           /\ all_points' = run.all_points
           /\ triangulation' = run.triangulation
           /\ mesh' = run.mesh
           /\ out' = run.out
           /\ response' = IF run.err # NoError
                          THEN JsonResponse(<< "Processing error: ", run.err >>, 500)
                          ELSE BytesResponse(run.out)
    /\ pc' = "responded"
    /\ UNCHANGED << data, unit, cand, point_set_id, fetch >>

NextPointSet == NewPointSet \/ PointSetEncode

NextTriangles == NewTrianglesCall \/ TrianglesEncode

Next == NewTriangulator \/ TriangulateBegin \/ TriangulateInsert \/ TriangulateEnd
            \/ TrianglesEncode

SpecPointSet == InitPointSet /\ [][NextPointSet]_vars

SpecTriangles == InitTriangles /\ [][NextTriangles]_vars

NextMeshReadBack == NewTrianglesCall \/ TrianglesEncode \/ PointSetOfMeshBytes

SpecMeshReadBack == InitTriangles /\ [][NextMeshReadBack]_vars

Spec == Init /\ [][Next]_vars

SpecFine == InitFine /\ [][Next]_vars

NextApi == ApiValidateId \/ ApiFetch \/ ApiProcess

SpecApi == InitApi /\ [][NextApi]_vars

----------------------------------------------------------------------------
(* Geometry of the claims, exact, on coordinates in units u *)

Cross(a, b, c) == (b[1] - a[1]) * (c[2] - a[2]) - (b[2] - a[2]) * (c[1] - a[1])

Collinear(a, b, c) == Cross(a, b, c) = 0

\* p strictly inside the circle through a, b, c (not collinear)
StrictlyInCircle(p, a, b, c) ==
    LET ax == a[1] - p[1]
        ay == a[2] - p[2]
        bx == b[1] - p[1]
        by == b[2] - p[2]
        cx == c[1] - p[1]
        cy == c[2] - p[2]
        det == (ax * ax + ay * ay) * (bx * cy - by * cx)
                - (bx * bx + by * by) * (ax * cy - ay * cx)
                + (cx * cx + cy * cy) * (ax * by - ay * bx)
    IN  \/ Cross(a, b, c) > 0 /\ det > 0
        \/ Cross(a, b, c) < 0 /\ det < 0

\* p strictly inside the triangle a, b, c
StrictlyInTriangle(p, a, b, c) ==
    \/ Cross(a, b, p) > 0 /\ Cross(b, c, p) > 0 /\ Cross(c, a, p) > 0
    \/ Cross(a, b, p) < 0 /\ Cross(b, c, p) < 0 /\ Cross(c, a, p) < 0

\* the four points are the corners of a convex quadrilateral, no three on a line
ConvexQuadrilateral(q) ==
    /\ \A a \in 1 .. 4 : \A b \in a + 1 .. 4 : \A c \in b + 1 .. 4 : ~ Collinear(q[a], q[b], q[c])
    /\ ~ StrictlyInTriangle(q[1], q[2], q[3], q[4])
    /\ ~ StrictlyInTriangle(q[2], q[1], q[3], q[4])
    /\ ~ StrictlyInTriangle(q[3], q[1], q[2], q[4])
    /\ ~ StrictlyInTriangle(q[4], q[1], q[2], q[3])

VertexSet(t) == { t[j] : j \in 1 .. Len(t) }

\* triangulate() has ended, with a mesh or with an error
Triangulated == pc \in {"mesh", "bytes"} /\ all_points # << >>
TriangulateRaised == pc = "raised" /\ all_points # << >>

----------------------------------------------------------------------------
(* C1 - C3: the result of triangulate *)

\* C1: three pairwise distinct points not on a line give a mesh of exactly one
\* triangle, on the vertices 0, 1, 2.
C1_ThreePointsOneTriangle ==
    (/\ Triangulated \/ TriangulateRaised
     /\ n_points = 3
     /\ ~ Collinear(all_points[1], all_points[2], all_points[3]))
    => /\ Triangulated
       /\ Len(mesh.triangles) = 1
       /\ VertexSet(mesh.triangles[1]) = {0, 1, 2}

\* C2: the four corners of a convex quadrilateral, no three on a line, give
\* exactly two triangles, every index in 0..3 and every index used.
C2_ConvexQuadTwoTriangles ==
    (/\ Triangulated \/ TriangulateRaised
     /\ n_points = 4
     /\ ConvexQuadrilateral(all_points))
    => /\ Triangulated
       /\ Len(mesh.triangles) = 2
       /\ \A k \in 1 .. Len(mesh.triangles) : VertexSet(mesh.triangles[k]) \subseteq 0 .. 3
       /\ UNION { VertexSet(mesh.triangles[k]) : k \in 1 .. Len(mesh.triangles) } = 0 .. 3

\* C3: the mesh returned is Delaunay: no input point lies strictly inside the
\* circumcircle of a triangle of the mesh.
C3_Delaunay ==
    Triangulated =>
        \A k \in 1 .. Len(mesh.triangles) : \A q \in 1 .. n_points :
            ~ StrictlyInCircle(all_points[q],
                               all_points[mesh.triangles[k][1] + 1],
                               all_points[mesh.triangles[k][2] + 1],
                               all_points[mesh.triangles[k][3] + 1])

----------------------------------------------------------------------------
(* C4: the constructor of the Triangulator *)

TooFewPoints == Len(points) < 3

\* two points of the PointSet have equal x and equal y
TwoEqualPoints ==
    \E j \in 1 .. Len(points) : \E k \in j + 1 .. Len(points) :
        /\ HalfUnits(points[j][1], unit) = HalfUnits(points[k][1], unit)
        /\ HalfUnits(points[j][2], unit) = HalfUnits(points[k][2], unit)

\* C4: Triangulator(point_set) succeeds iff there are at least 3 points and no
\* two are equal; fewer than 3 points is the insufficient-points error, tested
\* first; 3 or more with two equal is the duplicate-points error; after
\* either, nothing of triangulate has run and there is no mesh.
C4_ConstructorValidation ==
    pc # "pointset" =>
        /\ (pc = "raised" /\ all_points = << >>) <=> (TooFewPoints \/ TwoEqualPoints)
        /\ TooFewPoints => err = ErrMinPoints
        /\ (~ TooFewPoints /\ TwoEqualPoints) => err = ErrDupPoints
        /\ (TooFewPoints \/ TwoEqualPoints) =>
                /\ mesh = NoMesh
                /\ triangulation = << >>
                /\ i = 0
                /\ out = << >>
        /\ ~ (TooFewPoints \/ TwoEqualPoints) => err \notin {ErrMinPoints, ErrDupPoints}

\* two identical points: refused for their number, not as duplicates
C4_Witness ==
    /\ pc = "raised"
    /\ Len(points) = 2
    /\ points[1] = points[2]
    /\ err = ErrMinPoints

----------------------------------------------------------------------------
(* C5, C6: the point codec (SpecPointSet) *)

\* the little-endian count in the first 4 bytes of data (0 when there is none)
DeclaredCount ==
    IF Len(data) < 4 THEN 0
    ELSE data[1] + 256 * (data[2] + 256 * (data[3] + 256 * data[4]))

BufferTooShort == Len(data) < 4 \/ Len(data) < 4 + DeclaredCount * 8

\* the 4 bytes w hold a NaN
WordIsNaN(w) ==
    /\ w[4] % 128 = 127
    /\ w[3] >= 128
    /\ (w[3] > 128 \/ w[2] > 0 \/ w[1] > 0)

\* the float f is the one the 4 bytes w hold
FloatOfWord(f, w) == IF WordIsNaN(w) THEN IsNaN(f) ELSE PackF32(f) = w

\* C5: PointSet(data) fails iff data has fewer than 4 bytes or fewer than
\* 4 + count*8; otherwise points holds exactly count points, the k-th one read
\* from the k-th pair of words.
C5_DecodeFailsIffShort ==
    pc # "buffer" =>
        /\ pc = "raised" <=> BufferTooShort
        /\ pc = "raised" => err \in {ErrNoCount, ErrShort} /\ points = << >>
        /\ pc # "raised" =>
            /\ Len(points) = DeclaredCount
            /\ \A k \in 1 .. Len(points) : \A c \in 1 .. 2 :
                    FloatOfWord(points[k][c],
                                SubSeq(data, 8 * k + 4 * c - 7, 8 * k + 4 * c - 4))

\* a buffer of two different points, with bytes after them, is decoded
C5_Witness ==
    /\ pc = "pointset"
    /\ DeclaredCount = 2
    /\ Len(points) = 2
    /\ points[1] # points[2]
    /\ points[1][1] # points[1][2]
    /\ Len(data) > 20

\* C6: PointSet(b).to_bytes() is the first 4 + 8*count bytes of b, and decoding
\* that encoding gives the same points in the same order.
C6_RoundTrip ==
    pc = "bytes" =>
        /\ out = SubSeq(data, 1, 4 + 8 * DeclaredCount)
        /\ BuildError(out) = NoError
        /\ BuildFromBytes(out) = points

----------------------------------------------------------------------------
(* C7 - C9: the mesh (SpecTriangles) *)

TriangleHasThree(t) == Len(t) = 3
TriangleInRange(t) == \A j \in 1 .. Len(t) : 0 <= t[j] /\ t[j] < Len(points)
TrianglePairwiseDistinct(t) == \A j \in 1 .. Len(t) : \A l \in j + 1 .. Len(t) : t[j] # t[l]
TriangleRepeatsEarlier(k) == \E m \in 1 .. k - 1 : VertexSet(cand[m]) = VertexSet(cand[k])

TriangleViolates(k) ==
    \/ ~ TriangleHasThree(cand[k])
    \/ ~ TriangleInRange(cand[k])
    \/ ~ TrianglePairwiseDistinct(cand[k])
    \/ TriangleRepeatsEarlier(k)

\* the error of the first failing check on the k-th triangle
FirstFailingCheck(k) ==
    IF ~ TriangleHasThree(cand[k]) THEN ErrIndicesNumber
    ELSE IF ~ TriangleInRange(cand[k]) THEN ErrRange
    ELSE IF ~ TrianglePairwiseDistinct(cand[k]) THEN ErrDistinct
    ELSE ErrDupTriangles

\* C7: Triangles(pointset, triangles) succeeds iff every triangle has exactly 3
\* indices, all in [0, n), pairwise distinct, and no two triangles have the
\* same vertex set; otherwise the one error raised is that of the first
\* failing check (count, range, distinct, duplicate) on the first triangle in
\* list order that violates one.
C7_MeshValidation ==
    pc # "args" =>
        /\ pc \in {"mesh", "bytes"} <=>
                /\ \A k \in 1 .. Len(cand) :
                        /\ TriangleHasThree(cand[k])
                        /\ TriangleInRange(cand[k])
                        /\ TrianglePairwiseDistinct(cand[k])
                /\ \A k \in 1 .. Len(cand) : \A m \in 1 .. Len(cand) :
                        k # m => VertexSet(cand[k]) # VertexSet(cand[m])
        /\ pc = "raised" =>
                /\ mesh = NoMesh
                /\ \E k \in 1 .. Len(cand) :
                        /\ TriangleViolates(k)
                        /\ \A m \in 1 .. k - 1 : ~ TriangleViolates(m)
                        /\ err = FirstFailingCheck(k)

\* the second triangle fails two checks: the error is the one of the range check
C7_Witness ==
    /\ pc = "raised"
    /\ Len(cand) = 2
    /\ ~ TriangleViolates(1)
    /\ TriangleHasThree(cand[2])
    /\ ~ TriangleInRange(cand[2])
    /\ ~ TrianglePairwiseDistinct(cand[2])
    /\ err = ErrRange

\* the triangle that made Triangles(ps, tris) raise: its position and itself
Offender(ps, tris) ==
    LET k == ValidateFrom(tris, 1, Len(ps), {})[2]
    IN  << k, tris[k] >>

\* C8: the error raised by Triangles(...) identifies the offending triangle, by
\* its position or by its indices: two failing calls on the same point set
\* that raise the same error have the offender at the same position, or the
\* same offending triple.
C8_ErrorNamesTriangle ==
    pc = "raised" =>
        \/ \A other \in TriLists :
                ValidateTriangles(points, other) = err =>
                    Offender(points, other)[1] = Offender(points, cand)[1]
        \/ \A other \in TriLists :
                ValidateTriangles(points, other) = err =>
                    Offender(points, other)[2] = Offender(points, cand)[2]

\* C9: to_bytes is the encoding of the n points, then the number t of
\* triangles as a little-endian uint32, then the triangles in the order given
\* to the constructor, each as its three indices in the order given;
\* 4 + 8n + 4 + 12t bytes in all.
C9_MeshEncoding ==
    pc = "bytes" =>
        LET n == Len(points)
            t == Len(cand)
        IN  /\ Len(out) = 4 + 8 * n + 4 + 12 * t
            /\ SubSeq(out, 1, 4 + 8 * n) = PointSetToBytes(points)
            /\ SubSeq(out, 4 + 8 * n + 1, 4 + 8 * n + 4) = << t % 256, (t \div 256) % 256, 0, 0 >>
            /\ \A k \in 1 .. t : \A j \in 1 .. 3 :
                    SubSeq(out, 8 * n + 12 * k + 4 * j - 7, 8 * n + 12 * k + 4 * j - 4)
                        = << cand[k][j], 0, 0, 0 >>

\* two triangles, the first not in sorted order, have been encoded
C9_Witness ==
    /\ pc = "bytes"
    /\ Len(cand) = 2
    /\ cand[1] = << 2, 0, 1 >>
    /\ cand[2] = << 3, 1, 0 >>

----------------------------------------------------------------------------
(* C10: triangulate leaves the PointSet alone *)

\* a step of triangulate, or of the encoding of its mesh, as C10 wants it
C10_Step ==
    pc \in {"triangulator", "inserting", "mesh"} =>
        /\ points' = points
        /\ pc' = "inserting" => Len(all_points') = Len(points) + 3
        /\ pc' = "mesh" => mesh'.pointset = points /\ Len(mesh'.pointset) = n_points
        /\ pc' = "bytes" => SubSeq(out', 1, 4) = << Len(points), 0, 0, 0 >>

\* C10: no step of triangulate changes point_set.points (the super-triangle
\* nodes go to all_points only); the mesh returned is over that PointSet, and
\* its encoding starts with the count n of the input points.
C10_PointsUnchanged == [][C10_Step]_vars

\* a mesh of 4 points, triangulated and encoded
C10_Witness ==
    /\ pc = "bytes"
    /\ Len(points) = 4
    /\ Len(all_points) = 7
    /\ Len(mesh.triangles) = 2
    /\ SubSeq(out, 1, 4) = << 4, 0, 0, 0 >>

----------------------------------------------------------------------------
(* C11: the mesh returned holds no super-triangle vertex, and few triangles *)

\* C11: the mesh returned for n accepted points has every index in [0, n)
\* and at most 2n - 5 triangles.
C11_NoSuperVertexEulerBound ==
    Triangulated =>
        /\ \A k \in 1 .. Len(mesh.triangles) : VertexSet(mesh.triangles[k]) \subseteq 0 .. n_points - 1
        /\ Len(mesh.triangles) <= 2 * n_points - 5

----------------------------------------------------------------------------
(* C14 - C16: the insertion loop *)

Range(s) == { s[k] : k \in 1 .. Len(s) }

\* how many elements of the list s are equal to t
Occurrences(s, t) == Cardinality({ k \in 1 .. Len(s) : s[k] = t })

UnorderedEdges(t) == { {t[1], t[2]}, {t[2], t[3]}, {t[3], t[1]} }

\* B: the working triangles that the containment test of step 2a reports for
\* point number idx
Cavity(idx) ==
    { t \in Range(triangulation) :
        IsPointInCircumcircle(all_points[idx + 1], t, all_points, unit) }

\* the edges (a, b), as directed by their triangle, that exactly one triangle
\* of B has
BoundaryEdges(B) ==
    { edge \in UNION { Range(TriangleEdges(t)) : t \in B } :
        Cardinality({ t \in B : {edge[1], edge[2]} \in UnorderedEdges(t) }) = 1 }

\* a step of the loop, as C14 wants it
C14_Step ==
    (pc = "inserting" /\ i' = i + 1) =>
        LET B == Cavity(i)
            new == { << edge[1], edge[2], i >> : edge \in BoundaryEdges(B) }
        IN  /\ \A t \in Range(triangulation) \cup Range(triangulation') \cup new :
                Occurrences(triangulation', t) =
                    (IF t \in B THEN 0 ELSE Occurrences(triangulation, t))
                    + (IF t \in new THEN 1 ELSE 0)
            /\ Len(triangulation') = Len(triangulation) - Cardinality(B) + Cardinality(BoundaryEdges(B))

\* C14: in the insertion of point i, with B the working triangles the
\* containment test reports, an edge of B is a boundary edge iff no other
\* triangle of B has it (as an unordered pair), and the working set becomes
\* the previous one minus B plus one triangle (a, b, i) per boundary edge
\* (a, b), nothing else added or removed.
C14_CavityRetriangulated == [][C14_Step]_vars

\* point i is about to go into a cavity of several triangles, some edges of
\* which are inside the cavity
C14_Witness ==
    /\ pc = "inserting"
    /\ i >= 1
    /\ i < Len(points)
    /\ Cardinality(Cavity(i)) >= 2
    /\ Cardinality(BoundaryEdges(Cavity(i))) = Cardinality(Cavity(i)) + 2
    /\ Len(triangulation) = 2 * i + 1

\* the working triangles all have three distinct indices below n + 3, and no
\* two of them the same vertex set
WorkingSetValid ==
    /\ \A k \in 1 .. Len(triangulation) :
        /\ Len(triangulation[k]) = 3
        /\ Cardinality(VertexSet(triangulation[k])) = 3
        /\ VertexSet(triangulation[k]) \subseteq 0 .. n_points + 2
    /\ \A k \in 1 .. Len(triangulation) : \A j \in k + 1 .. Len(triangulation) :
        VertexSet(triangulation[k]) # VertexSet(triangulation[j])

\* C15: all along the loop the working triangles are valid and pairwise on
\* different vertex sets, and triangulate never fails with a mesh error.
C15_WorkingSetValid ==
    /\ pc \in {"inserting", "mesh", "bytes"} /\ all_points # << >> => WorkingSetValid
    /\ ~ TriangulateRaised

\* four points inserted, nine working triangles, a mesh of two built from them
C15_Witness ==
    /\ pc = "mesh"
    /\ n_points = 4
    /\ i = 4
    /\ Len(triangulation) = 9
    /\ WorkingSetValid
    /\ Len(mesh.triangles) = 2
    /\ err = NoError

\* C16: after k points are in, the working set has 2k + 1 triangles and one
\* of them has vertex k - 1 (each insertion found a cavity of m triangles
\* with m + 2 boundary edges).
C16_EveryPointInserted ==
    (pc = "inserting" /\ i >= 1) =>
        /\ Len(triangulation) = 2 * i + 1
        /\ \E k \in 1 .. Len(triangulation) : i - 1 \in VertexSet(triangulation[k])

----------------------------------------------------------------------------
(* C12: reading a mesh buffer back *)

\* C12: decoding the encoding of a valid mesh m gives a mesh with the points
\* of m and the triangles of m, in the same order.  The only decoder the core
\* has is PointSet(...): the object it builds from m.to_bytes() is looked at.
C12_MeshRoundTrip ==
    (pc = "pointset" /\ out # << >> /\ data = out) =>
        LET decoded == PointSetObject(points)
        IN  /\ decoded.points = mesh.pointset
            /\ "triangles" \in DOMAIN decoded
            /\ decoded.triangles = mesh.triangles

----------------------------------------------------------------------------
(* C13: the stages of the handler *)

Stages == << "uuid.UUID", "urlopen", "PointSet", "Triangulator", "triangulate", "to_bytes" >>

\* 8-4-4-4-12 hexadecimal digits
HyphenatedUuid(s) ==
    /\ Len(s) = 36
    /\ \A k \in 1 .. 36 :
        IF k \in {9, 14, 19, 24} THEN s[k] = Ord["-"] ELSE s[k] \in AsciiHexDigits

\* the text of a UUID: hyphenated, or that in braces or after urn:uuid:, or
\* the 32 digits alone
IsUuidText(s) ==
    \/ HyphenatedUuid(s)
    \/ Len(s) = 32 /\ \A k \in 1 .. 32 : s[k] \in AsciiHexDigits
    \/ Len(s) = 38 /\ s[1] = Ord["{"] /\ s[38] = Ord["}"] /\ HyphenatedUuid(SubSeq(s, 2, 37))
    \/ /\ StartsWith(s, Codes(<< "u", "r", "n", ":", "u", "u", "i", "d", ":" >>))
       /\ HyphenatedUuid(SubSeq(s, 10, Len(s)))

\* the bytes fetched do not go through PointSet and Triangulator
FetchedRefused ==
    \/ Len(fetch.bytes) < 4
    \/ Len(fetch.bytes) < 4 + UnpackU32(fetch.bytes, 0) * 8
    \/ TooFewPoints
    \/ TwoEqualPoints

\* the answer of the handler, for an id that is valid or not
HandlerAnswers(valid) ==
    /\ \E k \in 0 .. Len(Stages) : calls = SubSeq(Stages, 1, k)
    /\ pc = "responded" =>
        /\ ~ valid => /\ response.status = 400
                      /\ calls = << "uuid.UUID" >>
        /\ (valid /\ fetch.kind # "body") =>
                /\ calls = << "uuid.UUID", "urlopen" >>
                /\ fetch.kind = "HTTPError" /\ fetch.code = 404 => response.status = 404
                /\ fetch.kind = "HTTPError" /\ fetch.code # 404 => response.status = 502
                /\ fetch.kind # "HTTPError" => response.status = 503
        /\ (valid /\ fetch.kind = "body") =>
                /\ data = fetch.bytes
                /\ FetchedRefused <=> response.status = 500
                /\ response.status = 500 <=> err # NoError
                /\ response.status \in {200, 500}
        /\ response.status # 200 => mesh = NoMesh /\ out = << >>
        /\ response.status \notin {200, 500} => points = << >> /\ all_points = << >> /\ err = NoError
        /\ response.status = 200 =>
                /\ response.content_type = "application/octet-stream"
                /\ calls = Stages
                /\ PointSetToBytes(points) = SubSeq(fetch.bytes, 1, 4 + 8 * Len(points))
                /\ mesh.pointset = points
                /\ mesh.triangles = FinalTriangles(triangulation, Len(points))
                /\ response.body = PointSetToBytes(points) \o PackU32(Len(mesh.triangles))
                                        \o PackTriangles(mesh.triangles)

\* C13: the handler validates the id, fetches, then processes, and answers
\* with the first failure: 400 for an id that is not a UUID (nothing fetched,
\* nothing triangulated), 404 / 502 / 503 for the fetch failures (the core
\* not called), 500 for a ValueError of the core, else 200 with the encoded
\* mesh of the fetched points as application/octet-stream.
C13_HandlerStages == HandlerAnswers(IsUuidText(point_set_id))

\* the same with "valid" read as "uuid.UUID(point_set_id) does not raise"
HandlerAnswersUuidParses == HandlerAnswers(UuidParses(point_set_id))

====
